---------------------------- MODULE Spec2Model ----------------------------
(***************************************************************************)
(* Link prediction notebook (basic_tasks/3_link_predict.ipynb): the edge   *)
(* splitter (cells 3-5), the training loop (cell 7) and the evaluator      *)
(* (cell 8), as a state machine over the notebook's variables.             *)
(*                                                                         *)
(* Node ids, edge ids and indices into the candidate pool are 0-based as   *)
(* in the notebook; TLA+ sequences are 1-based, so At(s, i) reads s[i].    *)
(***************************************************************************)
EXTENDS Integers, Sequences, FiniteSets

(***************************************************************************)
(* Sizes.  The notebook runs on 34 nodes / 156 edge entries, keeps 50      *)
(* positive and 50 negative pairs for testing and draws 200 negatives; the *)
(* model keeps the same code with smaller sizes.                           *)
(***************************************************************************)
NumNodes == 3

NumTestPos == 2

NumTestNeg == 1

NumNegDraws == 2

NumEpochs == 100

LogEvery == 5

\* 0.5, in hundredths
Threshold == 50

\* longest edge list of the arbitrary-graph specification
MaxEntries == 2

Nodes == 0 .. (NumNodes - 1)

VARIABLES pc, u, v, eids,
          test_pos_u, test_pos_v, train_pos_u, train_pos_v,
          neg_u, neg_v, neg_eids,
          test_neg_u, test_neg_v, train_neg_u, train_neg_v,
          train_u, train_v, train_label, test_u, test_v, test_label,
          e, steps, logits, all_logits, fwd_calls, loss, pred, out

splitVars == <<eids, test_pos_u, test_pos_v, train_pos_u, train_pos_v>>

poolVars == <<neg_u, neg_v>>

sampleVars == <<neg_eids, test_neg_u, test_neg_v, train_neg_u, train_neg_v>>

setVars == <<train_u, train_v, train_label, test_u, test_v, test_label>>

trainVars == <<e, steps, logits, all_logits, fwd_calls, loss>>

evalVars == <<pred, out>>

vars == <<pc, u, v, splitVars, poolVars, sampleVars, setVars, trainVars, evalVars>>

---------------------------------------------------------------------------
(* Python / numpy / torch primitives used by the cells *)

Min(a, b) == IF a < b THEN a ELSE b

Max(S) == CHOOSE x \in S : \A y \in S : y <= x

Range(s) == {s[i] : i \in 1 .. Len(s)}

\* s[i] with a 0-based index
At(s, i) == s[i + 1]

\* s[:n]
Upto(s, n) == SubSeq(s, 1, Min(n, Len(s)))

\* s[n:]
From(s, n) == SubSeq(s, Min(n, Len(s)) + 1, Len(s))

\* s[ids]: indexing by a sequence of 0-based indices
Take(s, ids) == [i \in 1 .. Len(ids) |-> At(s, ids[i])]

\* torch.zeros(n), torch.ones(n)
Zeros(n) == [i \in 1 .. n |-> 0]

Ones(n) == [i \in 1 .. n |-> 1]

\* np.arange(n)
Arange(n) == [i \in 1 .. n |-> i - 1]

\* the possible results of np.random.permutation(s)
PermutationsOf(s) ==
    {p \in [1 .. Len(s) -> Range(s)] :
        \A i, j \in 1 .. Len(s) : i # j => p[i] # p[j]}

\* the pairs of a set in row-major order (the order of np.where and of the
\* edge list)
Key(p) == p[1] * NumNodes + p[2]

RECURSIVE RowMajor(_)
RowMajor(S) ==
    IF S = {} THEN <<>>
    ELSE LET m == CHOOSE p \in S : \A q \in S : Key(p) <= Key(q)
         IN  <<m>> \o RowMajor(S \ {m})

Firsts(ps) == [i \in 1 .. Len(ps) |-> ps[i][1]]

Seconds(ps) == [i \in 1 .. Len(ps) |-> ps[i][2]]

---------------------------------------------------------------------------
(* The graph: g = load_zachery(); u, v = g.edges() *)

Reverse(p) == <<p[2], p[1]>>

Symmetric(E) == E \cup {Reverse(p) : p \in E}

\* 0 - 1 - ... - (NumNodes - 1)
PathGraph == Symmetric({<<i, i + 1>> : i \in 0 .. (NumNodes - 2)})

\* node 0 joined to every other node
StarGraph == Symmetric({<<0, i>> : i \in 1 .. (NumNodes - 1)})

\* The graphs the notebook is run on: every undirected edge is stored as two
\* ordered entries, there is no self-loop, no entry is listed twice, every
\* node has an edge.
Graphs == {RowMajor(PathGraph), RowMajor(StarGraph)}

---------------------------------------------------------------------------
(* Cell 3: positive split *)

\* eids[:50]
TestPosIds(p) == Upto(p, NumTestPos)

\* eids[49:]: the slice starts one entry early
TrainPosIdsOverlap(p) == From(p, NumTestPos - 1)

\* eids[50:]
TrainPosIds(p) == From(p, NumTestPos)

(* Cell 4: negative candidates and sampling *)

\* sp.coo_matrix((np.ones(len(u)), (u, v))): the shape is inferred from the
\* largest index, todense() sums the entries listed more than once
AdjRows(uu) == Max(Range(uu)) + 1

AdjCols(vv) == Max(Range(vv)) + 1

Adj(uu, vv, i, j) == Cardinality({k \in 1 .. Len(uu) : uu[k] = i /\ vv[k] = j})

Eye(i, j) == IF i = j THEN 1 ELSE 0

\* numpy broadcasting of an (r, c) matrix against the (34, 34) identity
Broadcasts(n) == n = 1 \/ n = NumNodes

BIndex(n, i) == IF n = 1 THEN 0 ELSE i

\* 1 - adj.todense(): the identity is not subtracted
AdjNegNoEye(uu, vv, i, j) ==
    1 - Adj(uu, vv, BIndex(AdjRows(uu), i), BIndex(AdjCols(vv), j))

\* adj_neg = 1 - adj.todense() - np.eye(34)
AdjNeg(uu, vv, i, j) ==
    1 - Adj(uu, vv, BIndex(AdjRows(uu), i), BIndex(AdjCols(vv), j)) - Eye(i, j)

\* np.where(adj_neg != 0)
NegPairs(uu, vv) ==
    RowMajor({p \in Nodes \X Nodes : AdjNeg(uu, vv, p[1], p[2]) # 0})

\* np.random.choice(n, k, replace=False)
ChoicesNoReplace(n, k) ==
    {d \in [1 .. k -> 0 .. (n - 1)] : \A i, j \in 1 .. k : i # j => d[i] # d[j]}

\* the possible results of np.random.choice(n, k)
Choices(n, k) == [1 .. k -> 0 .. (n - 1)]

\* neg_eids[:50]
TestNegIds(d) == Upto(d, NumTestNeg)

\* neg_eids[51:]: the slice starts one entry late
TrainNegIdsShort(d) == From(d, NumTestNeg + 1)

\* neg_eids[50:]
TrainNegIds(d) == From(d, NumTestNeg)

(* Cell 5: assembling the training and the testing set *)

\* torch.cat([torch.ones(len(pos)), torch.zeros(len(neg))])
LabelsSwapped(pos, neg) == Ones(Len(pos)) \o Zeros(Len(neg))

\* torch.cat([torch.zeros(len(pos)), torch.ones(len(neg))])
Labels(pos, neg) == Zeros(Len(pos)) \o Ones(Len(neg))

\* torch.cat([pos, neg])
Cat(pos, neg) == pos \o neg

---------------------------------------------------------------------------
(* The notebook's cells as actions *)

Unset == <<>>

Init ==
    /\ pc = "split_pos"
    /\ \E g \in Graphs : u = Firsts(g) /\ v = Seconds(g)
    /\ eids = Unset
    /\ test_pos_u = Unset /\ test_pos_v = Unset
    /\ train_pos_u = Unset /\ train_pos_v = Unset
    /\ neg_u = Unset /\ neg_v = Unset /\ neg_eids = Unset
    /\ test_neg_u = Unset /\ test_neg_v = Unset
    /\ train_neg_u = Unset /\ train_neg_v = Unset
    /\ train_u = Unset /\ train_v = Unset /\ train_label = Unset
    /\ test_u = Unset /\ test_v = Unset /\ test_label = Unset
    /\ e = 0 /\ steps = 0 /\ logits = -1 /\ all_logits = <<>>
    /\ fwd_calls = <<>> /\ loss = 0
    /\ pred = Unset /\ out = <<>>

SplitPositive ==
    /\ pc = "split_pos"
    /\ \E p \in PermutationsOf(Arange(Len(u))) :
        /\ eids' = p
        /\ test_pos_u' = Take(u, TestPosIds(p))
        /\ test_pos_v' = Take(v, TestPosIds(p))
        /\ train_pos_u' = Take(u, TrainPosIds(p))
        /\ train_pos_v' = Take(v, TrainPosIds(p))
    /\ pc' = "find_neg"
    /\ UNCHANGED <<u, v, poolVars, sampleVars, setVars, trainVars, evalVars>>

FindNegatives ==
    /\ pc = "find_neg"
    /\ Len(u) > 0
    /\ Broadcasts(AdjRows(u)) /\ Broadcasts(AdjCols(v))
    /\ neg_u' = Firsts(NegPairs(u, v))
    /\ neg_v' = Seconds(NegPairs(u, v))
    /\ pc' = "sample_neg"
    /\ UNCHANGED <<u, v, splitVars, sampleVars, setVars, trainVars, evalVars>>

SampleNegatives ==
    /\ pc = "sample_neg"
    /\ Len(neg_u) > 0
    /\ \E d \in Choices(Len(neg_u), NumNegDraws) :
        /\ neg_eids' = d
        /\ test_neg_u' = Take(neg_u, TestNegIds(d))
        /\ test_neg_v' = Take(neg_v, TestNegIds(d))
        /\ train_neg_u' = Take(neg_u, TrainNegIds(d))
        /\ train_neg_v' = Take(neg_v, TrainNegIds(d))
    /\ pc' = "assemble"
    /\ UNCHANGED <<u, v, splitVars, poolVars, setVars, trainVars, evalVars>>

Assemble ==
    /\ pc = "assemble"
    /\ train_u' = Cat(train_pos_u, train_neg_u)
    /\ train_v' = Cat(train_pos_v, train_neg_v)
    /\ train_label' = Labels(train_pos_u, train_neg_u)
    /\ test_u' = Cat(test_pos_u, test_neg_u)
    /\ test_v' = Cat(test_pos_v, test_neg_v)
    /\ test_label' = Labels(test_pos_u, test_neg_u)
    /\ pc' = "forward"
    /\ UNCHANGED <<u, v, splitVars, poolVars, sampleVars, trainVars, evalVars>>

---------------------------------------------------------------------------
(* Cell 7: the training loop; cell 8: the evaluator *)

\* The numeric content of the parameters is not modelled: a parameter state
\* is the number of optimizer steps it has received, and a forward pass
\* net(g, inputs) yields the representations of that parameter state.
Forward(params) == params

\* F.binary_cross_entropy(pred, train_label): some non-negative value
LossValues == {0, 1}

\* e % 5 == 1
LogDueShifted(epoch) == epoch % LogEvery = 1

\* e % 5 == 0
LogDue(epoch) == epoch % LogEvery = 0

\* 'In epoch {}, loss: {}'
EpochLine(epoch) == [kind |-> "epoch", e |-> epoch]

\* 'Accuracy', correct / len(pred)
AccuracyLine(n, d) == [kind |-> "accuracy", num |-> n, den |-> d]

\* the values one coordinate of a node representation takes in the model
HVals == {-1, 0, 1}

\* torch.sigmoid, in hundredths, on the dot products the model produces
Sigmoid(x) == IF x = 0 THEN 50 ELSE IF x > 0 THEN 73 ELSE 27

\* torch.sigmoid((logits[test_u] * logits[test_v]).sum(dim=1))
Scores(h, uu, vv) == [i \in 1 .. Len(uu) |-> Sigmoid(h[uu[i]] * h[vv[i]])]

\* comparing a bool tensor with a float tensor promotes True to 1.0
BoolToNum(b) == IF b THEN 1 ELSE 0

\* pred > 0.5
PredictedStrict(s) == BoolToNum(s > Threshold)

\* pred >= 0.5
Predicted(s) == BoolToNum(s >= Threshold)

\* ((pred >= 0.5) == test_label).sum().item()
Correct(pr, lab) ==
    Cardinality({i \in 1 .. Len(pr) : Predicted(pr[i]) = lab[i]})

\* logits = net(g, inputs) run again before scoring
EvalLogitsFresh == Forward(steps)

\* the representations the evaluator scores with: the loop's last logits
EvalLogits == logits

TrainForward ==
    /\ pc = "forward"
    /\ logits' = Forward(steps)
    /\ fwd_calls' = Append(fwd_calls, steps)
    /\ loss' \in LossValues
    /\ pc' = "backward"
    /\ UNCHANGED <<u, v, splitVars, poolVars, sampleVars, setVars, evalVars,
                   e, steps, all_logits>>

TrainStep ==
    /\ pc = "backward"
    /\ steps' = steps + 1
    /\ all_logits' = Append(all_logits, logits)
    /\ pc' = "log"
    /\ UNCHANGED <<u, v, splitVars, poolVars, sampleVars, setVars, evalVars,
                   e, logits, fwd_calls, loss>>

TrainLog ==
    /\ pc = "log"
    /\ out' = IF LogDue(e) THEN Append(out, EpochLine(e)) ELSE out
    /\ IF e + 1 < NumEpochs
          THEN e' = e + 1 /\ pc' = "forward"
          ELSE e' = e /\ pc' = "evaluate"
    /\ UNCHANGED <<u, v, splitVars, poolVars, sampleVars, setVars, pred,
                   steps, logits, all_logits, fwd_calls, loss>>

Evaluate ==
    /\ pc = "evaluate"
    /\ \E h \in [Nodes -> HVals] :
        /\ pred' = [of |-> EvalLogits, score |-> Scores(h, test_u, test_v)]
        /\ out' = Append(out, AccuracyLine(Correct(pred'.score, test_label),
                                           Len(pred'.score)))
    /\ pc' = "done"
    /\ UNCHANGED <<u, v, splitVars, poolVars, sampleVars, setVars, trainVars>>

\* coo_matrix cannot infer a shape from no entries; a dense matrix whose
\* shape is neither 1 nor 34 along an axis cannot be subtracted from np.eye(34)
FindNegativesFails ==
    /\ pc = "find_neg"
    /\ ~ (Len(u) > 0 /\ Broadcasts(AdjRows(u)) /\ Broadcasts(AdjCols(v)))
    /\ pc' = "error"
    /\ UNCHANGED <<u, v, splitVars, poolVars, sampleVars, setVars, trainVars,
                   evalVars>>

---------------------------------------------------------------------------
(* Specifications *)

\* Cells 3-5 on the notebook's graph
Next == SplitPositive \/ FindNegatives \/ SampleNegatives \/ Assemble

Spec == Init /\ [][Next]_vars

\* Cells 3-4 on an arbitrary edge list over the nodes
EdgeLists ==
    UNION {[1 .. n -> Nodes \X Nodes] : n \in 1 .. MaxEntries}

InitAny ==
    /\ pc = "split_pos"
    /\ \E g \in EdgeLists : u = Firsts(g) /\ v = Seconds(g)
    /\ eids = Unset
    /\ test_pos_u = Unset /\ test_pos_v = Unset
    /\ train_pos_u = Unset /\ train_pos_v = Unset
    /\ neg_u = Unset /\ neg_v = Unset /\ neg_eids = Unset
    /\ test_neg_u = Unset /\ test_neg_v = Unset
    /\ train_neg_u = Unset /\ train_neg_v = Unset
    /\ train_u = Unset /\ train_v = Unset /\ train_label = Unset
    /\ test_u = Unset /\ test_v = Unset /\ test_label = Unset
    /\ e = 0 /\ steps = 0 /\ logits = -1 /\ all_logits = <<>>
    /\ fwd_calls = <<>> /\ loss = 0
    /\ pred = Unset /\ out = <<>>

NextPool == SplitPositive \/ FindNegatives \/ FindNegativesFails

SpecPool == InitAny /\ [][NextPool]_vars

\* Cells 7-8, started in the states cells 3-5 leave when the permutation is
\* the identity; the negative draws are arbitrary.  The loop and the
\* evaluator read the split only through the assembled sets.
InitTrain ==
    /\ pc = "forward"
    /\ \E g \in Graphs :
        /\ u = Firsts(g) /\ v = Seconds(g)
        /\ eids = Arange(Len(g))
        /\ neg_u = Firsts(NegPairs(u, v))
        /\ neg_v = Seconds(NegPairs(u, v))
    /\ test_pos_u = Take(u, TestPosIds(eids))
    /\ test_pos_v = Take(v, TestPosIds(eids))
    /\ train_pos_u = Take(u, TrainPosIds(eids))
    /\ train_pos_v = Take(v, TrainPosIds(eids))
    /\ neg_eids \in Choices(Len(neg_u), NumNegDraws)
    /\ test_neg_u = Take(neg_u, TestNegIds(neg_eids))
    /\ test_neg_v = Take(neg_v, TestNegIds(neg_eids))
    /\ train_neg_u = Take(neg_u, TrainNegIds(neg_eids))
    /\ train_neg_v = Take(neg_v, TrainNegIds(neg_eids))
    /\ train_u = Cat(train_pos_u, train_neg_u)
    /\ train_v = Cat(train_pos_v, train_neg_v)
    /\ train_label = Labels(train_pos_u, train_neg_u)
    /\ test_u = Cat(test_pos_u, test_neg_u)
    /\ test_v = Cat(test_pos_v, test_neg_v)
    /\ test_label = Labels(test_pos_u, test_neg_u)
    /\ e = 0 /\ steps = 0 /\ logits = -1 /\ all_logits = <<>>
    /\ fwd_calls = <<>> /\ loss = 0
    /\ pred = Unset /\ out = <<>>

NextTrain == TrainForward \/ TrainStep \/ TrainLog \/ Evaluate

\* the cells run to the end: nothing suspends the single thread
SpecTrain == InitTrain /\ [][NextTrain]_vars /\ WF_vars(NextTrain)

---------------------------------------------------------------------------
(* Properties *)

PairsOf(a, b) == {<<a[i], b[i]>> : i \in 1 .. Len(a)}

PairAt(a, b, i) == <<a[i], b[i]>>

Edges == PairsOf(u, v)

PositiveSplitDone == pc \in {"find_neg", "sample_neg", "assemble", "forward"}

NegativeSplitDone == pc \in {"assemble", "forward"}

Assembled == pc = "forward"

\* C1: after the positive split, eids is a permutation of the edge ids; the
\* positive test set holds the edges of its first NumTestPos ids, the
\* positive training set the edges of all the remaining ids in order, so no
\* edge id is in both and the two lengths add up to the edge count.
C1_PositiveSplitPartitions ==
    PositiveSplitDone =>
        /\ Len(eids) = Len(u)
        /\ Range(eids) = 0 .. (Len(u) - 1)
        /\ Len(test_pos_u) = NumTestPos /\ Len(test_pos_v) = NumTestPos
        /\ Len(train_pos_u) = Len(u) - NumTestPos
        /\ Len(train_pos_v) = Len(u) - NumTestPos
        /\ Len(train_pos_u) + Len(test_pos_u) = Len(u)
        /\ \A i \in 1 .. NumTestPos :
              PairAt(test_pos_u, test_pos_v, i) = PairAt(u, v, eids[i] + 1)
        /\ \A i \in 1 .. (Len(u) - NumTestPos) :
              PairAt(train_pos_u, train_pos_v, i)
                 = PairAt(u, v, eids[NumTestPos + i] + 1)

C1_Witness ==
    /\ pc = "find_neg"
    /\ eids # Arange(Len(u))
    /\ Len(test_pos_u) = NumTestPos
    /\ Len(train_pos_u) > 0

\* C2: every sampled negative pair, test or training, is not an entry of the
\* edge list and joins two different nodes; every positive pair, test or
\* training, is an entry of the edge list.
C2_NegativesAreNonEdges ==
    NegativeSplitDone =>
        /\ \A p \in PairsOf(test_neg_u, test_neg_v)
                      \cup PairsOf(train_neg_u, train_neg_v) :
              p \notin Edges /\ p[1] # p[2]
        /\ PairsOf(test_pos_u, test_pos_v) \subseteq Edges
        /\ PairsOf(train_pos_u, train_pos_v) \subseteq Edges

C2_Witness ==
    /\ pc = "assemble"
    /\ Len(test_neg_u) = NumTestNeg
    /\ Len(train_neg_u) > 0
    /\ Len(test_pos_u) > 0

\* C3: whatever is drawn, the negative test set has NumTestNeg pairs and the
\* negative training set the other NumNegDraws - NumTestNeg; the assembled
\* test set has NumTestPos + NumTestNeg samples and the assembled training
\* set (edge count - NumTestPos) + (NumNegDraws - NumTestNeg).
C3_SplitSizes ==
    /\ NegativeSplitDone =>
        /\ Len(neg_eids) = NumNegDraws
        /\ Len(test_neg_u) = NumTestNeg /\ Len(test_neg_v) = NumTestNeg
        /\ Len(train_neg_u) = NumNegDraws - NumTestNeg
        /\ Len(train_neg_v) = NumNegDraws - NumTestNeg
    /\ Assembled =>
        /\ Len(test_u) = NumTestPos + NumTestNeg
        /\ Len(test_v) = NumTestPos + NumTestNeg
        /\ Len(test_label) = NumTestPos + NumTestNeg
        /\ Len(train_u) = (Len(u) - NumTestPos) + (NumNegDraws - NumTestNeg)
        /\ Len(train_v) = (Len(u) - NumTestPos) + (NumNegDraws - NumTestNeg)
        /\ Len(train_label) = (Len(u) - NumTestPos) + (NumNegDraws - NumTestNeg)

C3_Witness ==
    /\ Assembled
    /\ Len(test_u) = NumTestPos + NumTestNeg
    /\ Len(train_neg_u) = NumNegDraws - NumTestNeg
    /\ \E i, j \in 1 .. Len(neg_eids) : i # j /\ neg_eids[i] = neg_eids[j]

\* C5: in the assembled training set and test set, sample i carries label 0
\* and the i-th positive pair when i is within the positive part, label 1 and
\* the matching sampled negative pair otherwise; there is no other label.
AlignedLabels(su, sv, lab, pu, pv, nu, nv) ==
    /\ Len(su) = Len(pu) + Len(nu)
    /\ Len(sv) = Len(su) /\ Len(lab) = Len(su)
    /\ \A i \in 1 .. Len(su) :
        /\ lab[i] \in {0, 1}
        /\ lab[i] = 0 <=> i <= Len(pu)
        /\ i <= Len(pu) => PairAt(su, sv, i) = PairAt(pu, pv, i)
        /\ i > Len(pu) => PairAt(su, sv, i) = PairAt(nu, nv, i - Len(pu))

C5_LabelsAligned ==
    Assembled =>
        /\ AlignedLabels(train_u, train_v, train_label,
                         train_pos_u, train_pos_v, train_neg_u, train_neg_v)
        /\ AlignedLabels(test_u, test_v, test_label,
                         test_pos_u, test_pos_v, test_neg_u, test_neg_v)

C5_Witness ==
    /\ Assembled
    /\ \E i, j \in 1 .. Len(train_label) : train_label[i] = 0 /\ train_label[j] = 1
    /\ \E i, j \in 1 .. Len(test_label) : test_label[i] = 0 /\ test_label[j] = 1

\* C7: the draws are made with replacement and all of them are kept: when
\* the sampling is about to run, one of its outcomes puts the same pair in
\* the negative test set and in the negative training set; afterwards the two
\* negative sets together are the pool entries of all the draws, in order,
\* repeated draws included.
CrossDuplicate ==
    PairsOf(test_neg_u, test_neg_v) \cap PairsOf(train_neg_u, train_neg_v) # {}

C7_DrawsCrossDuplicate == SampleNegatives /\ CrossDuplicate'

C7_DuplicatesPossible ==
    /\ pc = "sample_neg" => ENABLED C7_DrawsCrossDuplicate
    /\ NegativeSplitDone =>
        /\ Cat(test_neg_u, train_neg_u) = Take(neg_u, neg_eids)
        /\ Cat(test_neg_v, train_neg_v) = Take(neg_v, neg_eids)

C7_Witness ==
    /\ pc = "assemble"
    /\ CrossDuplicate
    /\ \E i, j \in 1 .. Len(neg_eids) : i # j /\ neg_eids[i] = neg_eids[j]

C10_NoSharedUndirectedEdge ==
    PositiveSplitDone =>
        \A p \in PairsOf(test_pos_u, test_pos_v) :
            /\ p \notin PairsOf(train_pos_u, train_pos_v)
            /\ Reverse(p) \notin PairsOf(train_pos_u, train_pos_v)

\* C4: the accuracy line reports, over the number of test samples
\* (NumTestPos + NumTestNeg), the number of samples whose score is at least
\* 0.5 with label 1 or below 0.5 with label 0; it lies between 0 and 1.
C4_Accuracy ==
    pc = "done" =>
        LET line == out[Len(out)]
            hits == {i \in 1 .. Len(test_label) :
                        \/ pred.score[i] >= Threshold /\ test_label[i] = 1
                        \/ pred.score[i] < Threshold /\ test_label[i] = 0}
        IN  /\ line.kind = "accuracy"
            /\ Len(pred.score) = Len(test_label)
            /\ line.den = NumTestPos + NumTestNeg
            /\ line.num = Cardinality(hits)
            /\ 0 <= line.num /\ line.num <= line.den

C4_Witness ==
    /\ pc = "done"
    /\ \E i \in 1 .. Len(test_label) :
          pred.score[i] = Threshold /\ test_label[i] = 1
    /\ out[Len(out)].num > 0
    /\ out[Len(out)].num < out[Len(out)].den

\* C6: the run ends; at each point of the loop the number of optimizer steps
\* is the number of iterations completed, and an epoch line is printed only
\* after the step of its epoch; at the end there were NumEpochs iterations
\* and steps, and the output is the epoch lines of 0, 5, ..., 95 in
\* increasing order followed by one accuracy line.
NumEpochLines == (NumEpochs + LogEvery - 1) \div LogEvery

C6_EpochLines == [i \in 1 .. NumEpochLines |-> [kind |-> "epoch", e |-> LogEvery * (i - 1)]]

C6_StepPerIteration ==
    /\ pc = "forward" => steps = e /\ Len(fwd_calls) = e
    /\ pc = "backward" => steps = e /\ Len(fwd_calls) = e + 1
    /\ pc = "log" => steps = e + 1 /\ Len(fwd_calls) = e + 1
    /\ \A i \in 1 .. Len(out) : out[i].kind = "epoch" => steps >= out[i].e + 1

C6_FinalOutput ==
    pc = "done" =>
        /\ steps = NumEpochs
        /\ Len(fwd_calls) = NumEpochs
        /\ Len(out) = NumEpochLines + 1
        /\ SubSeq(out, 1, NumEpochLines) = C6_EpochLines
        /\ out[Len(out)].kind = "accuracy"

C6_RunsToTheEnd ==
    /\ <>(pc = "done")
    /\ [](C6_StepPerIteration /\ C6_FinalOutput)

C6_Witness ==
    /\ pc = "done"
    /\ steps = NumEpochs
    /\ Len(out) = NumEpochLines + 1

\* C9: all_logits[i] holds the representations of the parameters after i
\* steps; no forward pass uses the parameters of the last step; the evaluator
\* makes no forward pass and scores with the representations of the last
\* iteration, computed from the parameters after NumEpochs - 1 steps.
C9_EvaluatorUsesLastLogits ==
    /\ \A i \in 1 .. Len(all_logits) : all_logits[i] = i - 1
    /\ \A i \in 1 .. Len(fwd_calls) : fwd_calls[i] = i - 1 /\ fwd_calls[i] < NumEpochs
    /\ pc = "done" =>
        /\ pred.of = NumEpochs - 1
        /\ steps = NumEpochs
        /\ Len(all_logits) = NumEpochs
        /\ Len(fwd_calls) = NumEpochs

C9_Witness ==
    /\ pc = "done"
    /\ steps = NumEpochs
    /\ pred.of = NumEpochs - 1

===========================================================================
